---- MODULE Spec2Model ----
(***************************************************************************)
(* Logic-description language front end of GF2_Software (src/logsim):     *)
(* the recursive-descent Parser (parse.py) driven by the symbols that      *)
(* Scanner.get_symbol (scanner.py) returns.                                *)
(*                                                                         *)
(* The parser is modelled over the sequence of symbols the scanner yields  *)
(* for one definition file (tokens); every get_symbol call returns the     *)
(* next element, and an EOF symbol once the sequence is exhausted.         *)
(* Python exceptions are recorded in fault and end the pass.               *)
(* The builders (Devices, Network, Monitors) are collaborators outside    *)
(* src/: their results are drawn from the codes their contract lists,      *)
(* decided by badDev, badMon and badCon, which Init chooses.               *)
(*                                                                         *)
(* Three specifications share the variables:                               *)
(*   Spec         the Parser on a sequence of symbols;                     *)
(*   SpecNames    a Names object (names.py) called in any order;           *)
(*   SpecScanner  a Scanner (scanner.py) on the characters of a text.      *)
(* Each one holds the variables of the other two at their initial values.  *)
(* Names.lookup raises for every argument, so a Scanner built on a Names   *)
(* object raises in its constructor; SpecScanner also builds the Scanner   *)
(* on a name table whose lookup returns the list of ids and adds the new   *)
(* strings (names_class = "contract"), which is what scanner.py relies on. *)
(***************************************************************************)
EXTENDS Integers, Sequences, FiniteSets, TLC

\* ------------------------------------------------------------------ bounds
\* A statement that reads no symbol leaves parse_sections where it was, and
\* error_count then grows without limit; the model stops following such a
\* run at this many errors.
MaxErrors == 4

\* The name table is driven with counts of error codes from -MaxCount to
\* MaxCount, through MaxIssued successful calls of unique_error_codes, and
\* with name ids from -1 to MaxNameId.
MaxCount == 2
MaxIssued == 3
MaxNameId == 2

\* The scanner reads every text of at most MaxScanLen characters over
\* ScanChars, and is called ExtraCalls times more than the text has
\* characters.
MaxScanLen == 3
ExtraCalls == 2

\* ------------------------------------------------------- symbols (scanner)
NoneId == "None"

Sym(t, i) == [type |-> t, id |-> i]

COMMA == Sym("COMMA", NoneId)
SEMICOLON == Sym("SEMICOLON", NoneId)
DOT == Sym("DOT", NoneId)
CURLY_OPEN == Sym("CURLY_OPEN", NoneId)
CURLY_CLOSE == Sym("CURLY_CLOSE", NoneId)
EOF == Sym("EOF", NoneId)
\* a '#' comment: get_symbol returns a symbol of type LINECOMMENT for it
LINECOMMENT == Sym("LINECOMMENT", NoneId)
\* a word of Scanner.ignore: symbol.type is None
FILLER == Sym("None", NoneId)

KEYWORD(k) == Sym("KEYWORD", k)
NAME(n) == Sym("NAME", n)
NUMBER(d) == Sym("NUMBER", d)

DEVICE_ID == "Device"
CONNECTION_ID == "Connection"
MONITOR_ID == "Monitor"
IS_ID == "is"
ARE_ID == "are"
CONNECT_ID == "connect"

ending_symbols == {"SEMICOLON", "CURLY_CLOSE", "EOF"}

\* ------------------------------------------- collaborators (devices.py etc.)
D_TYPE == "DTYPE"
gate_types == {"AND", "OR", "NAND", "NOR", "XOR"}
device_types == {"CLOCK", "SWITCH", "DTYPE"}
dtype_output_ids == {"Q", "QBAR"}
dtype_input_ids == {"CLK", "SET", "CLEAR", "DATA"}

NO_ERROR == "NO_ERROR"

ParserErrors ==
    {"NO_SECTIONS", "NO_DEVICE_SECTION", "NO_CONNECTION_SECTION",
     "NO_MONITOR_SECTION", "NO_LINKING_VERB", "NO_SEMICOLON", "NO_DOT",
     "NO_CURLY_OPEN", "NO_CURLY_CLOSE", "NO_DEVICE", "NO_NUM",
     "NO_CONNECT_SYMBOL", "INVALID_DEVICE_NAME", "INVALID_DEVICE_TYPE",
     "INVALID_PORT"}

\* error_dict without the entries for the codes of the monitors
error_dict_without_monitors ==
    ParserErrors \cup
    {"INPUT_TO_INPUT", "OUTPUT_TO_OUTPUT", "INPUT_CONNECTED", "PORT_ABSENT",
     "DEVICE_ABSENT", "INVALID_QUALIFIER", "NO_QUALIFIER", "BAD_DEVICE",
     "QUALIFIER_PRESENT", "DEVICE_PRESENT"}

error_dict ==
    ParserErrors \cup
    {"INPUT_TO_INPUT", "OUTPUT_TO_OUTPUT", "INPUT_CONNECTED", "PORT_ABSENT",
     "DEVICE_ABSENT", "INVALID_QUALIFIER", "NO_QUALIFIER", "BAD_DEVICE",
     "QUALIFIER_PRESENT", "DEVICE_PRESENT", "NOT_OUTPUT", "MONITOR_PRESENT"}

\* int(symbol.id) for the digit strings the inputs use
IntOf(d) == CASE d = "0" -> 0 [] d = "1" -> 1 [] d = "2" -> 2
              [] d = "3" -> 3 [] OTHER -> 16

VARIABLES
    tokens,             \* the symbols the scanner yields for the file, in order
    badDev,             \* device names make_device rejects (qualifier error)
    badMon,             \* device names make_monitor rejects (not an output)
    badCon,             \* whether make_connection rejects the connection
    pc,                 \* position inside parse_network
    section,            \* the KEYWORD argument of the running parse_sections
    stmt,               \* word_number at the start of the section's last statement, or 0
    symbol,             \* Parser.symbol
    word_number,        \* Scanner.word_number: symbols returned so far
    error_count,        \* Parser.error_count
    device_section,     \* Parser.device_section
    connection_section, \* Parser.connection_section
    monitor_section,    \* Parser.monitor_section
    devices_list,       \* devices made so far: records device_id, device_kind
    monitors_dictionary,\* monitors made so far: pairs <<device_id, port>>
    calls,              \* builder calls made so far, in order
    errlog,             \* display_error calls made so far, in order
    fault,              \* the Python exception that ended the pass, or "none"
    ret                 \* what parse_network returned: "True", "None", or "unset"

\* the name table (names.py), driven on its own by SpecNames
VARIABLES
    names,              \* Names.names: the list of name strings, id = index
    error_code_count,   \* Names.error_code_count
    call,               \* the last call of a Names method, with its outcome
    issued              \* what unique_error_codes returned, call after call

parserVars == <<tokens, badDev, badMon, badCon, pc, section, stmt, symbol,
                word_number, error_count, device_section, connection_section,
                monitor_section, devices_list, monitors_dictionary, calls,
                errlog, fault, ret>>

namesVars == <<names, error_code_count, call, issued>>

\* the scanner at the level of characters (scanner.py), driven by SpecScanner
VARIABLES
    input_file,         \* the characters of the definition file
    source,             \* "string", or what opening the path gives
    names_class,        \* the name table handed to the Scanner: see InitScanner
    current_character,  \* Scanner.current_character; "" at the end of input
    character_count,    \* characters read so far
    current_line_number,\* Scanner.current_line_number
    current_position,   \* Scanner.current_position
    returned,           \* the Symbol the last get_symbol returned
    scan                \* where the last get_symbol began and how it ended

scannerVars == <<input_file, source, names_class, current_character,
                 character_count, current_line_number, current_position,
                 returned, scan>>

vars == <<parserVars, namesVars, scannerVars>>

\* The symbol returned by the i-th call of get_symbol (i >= 1).
SymbolAt(i) == IF i <= Len(tokens) THEN tokens[i] ELSE EOF

\* What the parser methods read and write, threaded through the operators.
World ==
    [symbol |-> symbol, word_number |-> word_number,
     error_count |-> error_count, devices_list |-> devices_list,
     monitors_dictionary |-> monitors_dictionary, calls |-> calls,
     errlog |-> errlog, fault |-> fault, section |-> section, stmt |-> stmt]

Commit(w) ==
    /\ symbol' = w.symbol
    /\ word_number' = w.word_number
    /\ error_count' = w.error_count
    /\ devices_list' = w.devices_list
    /\ monitors_dictionary' = w.monitors_dictionary
    /\ calls' = w.calls
    /\ errlog' = w.errlog
    /\ fault' = w.fault

\* self.symbol = self.scanner.get_symbol()
get_symbol(w) ==
    [w EXCEPT !.word_number = @ + 1, !.symbol = SymbolAt(w.word_number + 1)]

Raise(w, exc) == [w EXCEPT !.fault = exc]

\* the recovery loop of display_error: advance to ';', '}' or EOF
RECURSIVE skip_to_ending(_)
skip_to_ending(w) ==
    IF w.symbol.type \in ending_symbols THEN w
    ELSE skip_to_ending(get_symbol(w))

LogError(w0, w1, code, skip) ==
    [w1 EXCEPT !.errlog = Append(@,
        [code |-> code, skip |-> skip, section |-> w0.section,
         stmt |-> w0.stmt, at0 |-> w0.word_number, sym0 |-> w0.symbol,
         cnt0 |-> w0.error_count, at1 |-> w1.word_number,
         sym1 |-> w1.symbol, cnt1 |-> w1.error_count])]

\* display_error with the recovery consuming whatever delimiter it stops on
display_error_any_delimiter(w, error_type, skip) ==
    LET w1 == [w EXCEPT !.error_count = @ + 1] IN
    IF error_type \notin error_dict THEN Raise(w1, "KeyError")
    ELSE IF ~skip THEN LogError(w, w1, error_type, skip)
    ELSE LogError(w, get_symbol(skip_to_ending(w1)), error_type, skip)

\* display_error counting down
display_error_counting_down(w, error_type, skip) ==
    LET w1 == [w EXCEPT !.error_count = @ - 1] IN
    IF error_type \notin error_dict THEN Raise(w1, "KeyError")
    ELSE IF ~skip THEN LogError(w, w1, error_type, skip)
    ELSE LET w2 == skip_to_ending(w1)
             w3 == IF w2.symbol.type = "SEMICOLON" THEN get_symbol(w2) ELSE w2
         IN LogError(w, w3, error_type, skip)

\* Parser.display_error
display_error(w, error_type, skip) ==
    LET w1 == [w EXCEPT !.error_count = @ + 1] IN
    IF error_type \notin error_dict THEN Raise(w1, "KeyError")
    ELSE IF ~skip THEN LogError(w, w1, error_type, skip)
    ELSE LET w2 == skip_to_ending(w1)
             w3 == IF w2.symbol.type = "SEMICOLON" THEN get_symbol(w2) ELSE w2
         IN LogError(w, w3, error_type, skip)

\* ------------------------------------------------ collaborators' operations
\* device_property=None
NoProperty == -1

NoDevice == [device_id |-> NoneId, device_kind |-> NoneId]

\* Devices.get_device: the device with this id, or None
get_device(w, id) ==
    IF \E d \in w.devices_list : d.device_id = id
    THEN CHOOSE d \in w.devices_list : d.device_id = id
    ELSE NoDevice

LogCall(w, fn, args, er) ==
    [w EXCEPT !.calls = Append(@,
        [fn |-> fn, args |-> args, er |-> er, error_count |-> w.error_count,
         stmt |-> w.stmt, at |-> w.word_number])]

\* Devices.make_device(device_id, device_kind, device_property) -> error code
make_device(w, id, kind, prop) ==
    LET er == IF get_device(w, id) # NoDevice THEN "DEVICE_PRESENT"
              ELSE IF id \in badDev THEN "INVALID_QUALIFIER"
              ELSE NO_ERROR
        w1 == LogCall(w, "make_device", <<id, kind, prop>>, er)
    IN [er |-> er,
        w |-> IF er = NO_ERROR
              THEN [w1 EXCEPT !.devices_list =
                        @ \cup {[device_id |-> id, device_kind |-> kind]}]
              ELSE w1]

\* Network.make_connection(first_device, first_port, second_device,
\* second_port) -> error code
make_connection(w, d1, p1, d2, p2) ==
    LET er == IF badCon THEN "INPUT_CONNECTED" ELSE NO_ERROR
    IN [er |-> er, w |-> LogCall(w, "make_connection", <<d1, p1, d2, p2>>, er)]

\* Monitors.make_monitor(device_id, output_id) -> error code
make_monitor(w, dev, port) ==
    LET er == IF <<dev, port>> \in w.monitors_dictionary THEN "MONITOR_PRESENT"
              ELSE IF dev \in badMon THEN "NOT_OUTPUT"
              ELSE NO_ERROR
        w1 == LogCall(w, "make_monitor", <<dev, port>>, er)
    IN [er |-> er,
        w |-> IF er = NO_ERROR
              THEN [w1 EXCEPT !.monitors_dictionary = @ \cup {<<dev, port>>}]
              ELSE w1]

\* --------------------------------------------------------- Parser methods
\* Parser.ignore_none
RECURSIVE ignore_none(_)
ignore_none(w) ==
    IF w.symbol.type = "None" THEN ignore_none(get_symbol(w)) ELSE w

\* device_names leaving the loop on a missing name without reporting it
RECURSIVE device_names_silent(_, _)
device_names_silent(w, device_info) ==
    IF w.symbol.type = "COMMA"
    THEN LET w1 == get_symbol(w) IN
         IF w1.symbol.type = "NAME"
         THEN device_names_silent(get_symbol(w1),
                                  Append(device_info, w1.symbol.id))
         ELSE [w |-> w1, device_info |-> device_info]
    ELSE [w |-> w, device_info |-> device_info]

\* parse_device, lines 211-219: the names after the first one
RECURSIVE device_names(_, _)
device_names(w, device_info) ==
    IF w.symbol.type = "COMMA"
    THEN LET w1 == get_symbol(w) IN
         IF w1.symbol.type = "NAME"
         THEN device_names(get_symbol(w1), Append(device_info, w1.symbol.id))
         ELSE [w |-> display_error(w1, "INVALID_DEVICE_NAME", TRUE),
               device_info |-> device_info]
    ELSE [w |-> w, device_info |-> device_info]

\* parse_device, lines 240-248: the D-type loop reports the error and breaks
RECURSIVE make_dtypes(_, _, _)
make_dtypes(w, device_info, device_kind) ==
    IF device_info = <<>> THEN w
    ELSE LET r == make_device(w, Head(device_info), device_kind, NoProperty) IN
         IF r.er # NO_ERROR THEN display_error(r.w, r.er, FALSE)
         ELSE make_dtypes(r.w, Tail(device_info), device_kind)

\* parse_device, lines 271-280: the gate loop names device_er, which this
\* branch never assigns
RECURSIVE make_gates(_, _, _, _)
make_gates(w, device_info, device_kind, prop) ==
    IF device_info = <<>> THEN w
    ELSE LET r == make_device(w, Head(device_info), device_kind, prop) IN
         IF r.er # NO_ERROR THEN Raise(r.w, "UnboundLocalError")
         ELSE make_gates(r.w, Tail(device_info), device_kind, prop)

\* lines 249-255 and 283-295: the closing ';'
expect_semicolon(w) ==
    IF w.symbol.type # "SEMICOLON" THEN display_error(w, "NO_SEMICOLON", TRUE)
    ELSE get_symbol(w)

parse_device(w) ==
    IF w.symbol.type # "NAME" THEN display_error(w, "INVALID_DEVICE_NAME", TRUE)
    ELSE
    LET r == device_names(get_symbol(w), <<w.symbol.id>>)
        device_info == r.device_info
    IN
    IF r.w.symbol.id \notin {IS_ID, ARE_ID}
    THEN display_error(r.w, "NO_LINKING_VERB", TRUE)
    ELSE
    LET w3 == get_symbol(r.w)
        device_kind == w3.symbol.id
    IN
    IF w3.symbol.type # "NAME" THEN display_error(w3, "INVALID_DEVICE_NAME", TRUE)
    ELSE IF device_kind \notin gate_types \cup device_types THEN w3
    ELSE IF device_kind = D_TYPE
    THEN LET w4 == IF w3.error_count = 0
                   THEN make_dtypes(w3, device_info, device_kind) ELSE w3
         IN expect_semicolon(get_symbol(w4))
    ELSE
    LET w4 == ignore_none(get_symbol(w3)) IN
    IF w4.symbol.type # "NUMBER" THEN display_error(w4, "NO_NUM", TRUE)
    ELSE
    LET w5 == IF w4.error_count = 0
              THEN make_gates(w4, device_info, device_kind, IntOf(w4.symbol.id))
              ELSE w4
    IN IF w5.fault # "none" THEN w5
       ELSE expect_semicolon(ignore_none(get_symbol(w5)))

\* a local variable that the path taken has not assigned
Unbound == "<unbound>"

\* connection_first passing the name of the first device as its port when
\* no port is written
connection_first_named_port(w) ==
    LET first_device == get_device(w, w.symbol.id) IN
    IF first_device = NoDevice
    THEN [w |-> get_symbol(display_error(w, "INVALID_DEVICE_NAME", TRUE)),
          first_device |-> first_device, first_device_port |-> Unbound]
    ELSE IF first_device.device_kind = D_TYPE
    THEN LET w1 == get_symbol(w) IN
         IF w1.symbol.type # "DOT"
         THEN [w |-> display_error(w1, "NO_DOT", TRUE),
               first_device |-> first_device, first_device_port |-> Unbound]
         ELSE LET w2 == get_symbol(w1)
                  w3 == IF w2.symbol.id \notin dtype_output_ids
                        THEN display_error(w2, "INVALID_PORT", TRUE) ELSE w2
              IN [w |-> get_symbol(w3), first_device |-> first_device,
                  first_device_port |-> w3.symbol.id]
    ELSE [w |-> get_symbol(w), first_device |-> first_device,
          first_device_port |-> w.symbol.id]

\* parse_connection, lines 316-335: the first device and its port
connection_first(w) ==
    LET first_device == get_device(w, w.symbol.id) IN
    IF first_device = NoDevice
    THEN [w |-> get_symbol(display_error(w, "INVALID_DEVICE_NAME", TRUE)),
          first_device |-> first_device, first_device_port |-> Unbound]
    ELSE IF first_device.device_kind = D_TYPE
    THEN LET w1 == get_symbol(w) IN
         IF w1.symbol.type # "DOT"
         THEN [w |-> display_error(w1, "NO_DOT", TRUE),
               first_device |-> first_device, first_device_port |-> Unbound]
         ELSE LET w2 == get_symbol(w1)
                  w3 == IF w2.symbol.id \notin dtype_output_ids
                        THEN display_error(w2, "INVALID_PORT", TRUE) ELSE w2
              IN [w |-> get_symbol(w3), first_device |-> first_device,
                  first_device_port |-> w3.symbol.id]
    ELSE [w |-> get_symbol(w), first_device |-> first_device,
          first_device_port |-> NoneId]

\* connection_make calling the builder whatever the count of errors
connection_make_ungated(w, first_device, first_device_port, second_device, second_device_port) ==
    LET w1 ==
          IF first_device = NoDevice THEN Raise(w, "AttributeError")
          ELSE IF first_device_port = Unbound THEN Raise(w, "UnboundLocalError")
          ELSE LET r == make_connection(w, first_device.device_id,
                            first_device_port, second_device.device_id,
                            second_device_port)
               IN IF r.er # NO_ERROR THEN display_error(r.w, r.er, FALSE)
                  ELSE r.w
    IN IF w1.fault # "none" THEN w1 ELSE get_symbol(w1)

\* parse_connection, lines 358-366: the statement is complete
connection_make(w, first_device, first_device_port, second_device, second_device_port) ==
    LET w1 ==
          IF w.error_count # 0 THEN w
          ELSE IF first_device = NoDevice THEN Raise(w, "AttributeError")
          ELSE IF first_device_port = Unbound THEN Raise(w, "UnboundLocalError")
          ELSE LET r == make_connection(w, first_device.device_id,
                            first_device_port, second_device.device_id,
                            second_device_port)
               IN IF r.er # NO_ERROR THEN display_error(r.w, r.er, FALSE)
                  ELSE r.w
    IN IF w1.fault # "none" THEN w1 ELSE get_symbol(w1)

parse_connection(w) ==
    IF w.symbol.type # "NAME" THEN display_error(w, "INVALID_DEVICE_NAME", TRUE)
    ELSE
    LET f == connection_first(w) IN
    IF f.w.symbol.id # CONNECT_ID
    THEN display_error(f.w, "NO_CONNECT_SYMBOL", TRUE)
    ELSE
    LET w1 == get_symbol(f.w)
        second_device == get_device(w1, w1.symbol.id)
    IN
    IF second_device = NoDevice
    THEN display_error(w1, "INVALID_DEVICE_NAME", TRUE)
    ELSE
    LET w2 == get_symbol(w1) IN
    IF w2.symbol.type # "DOT" THEN display_error(w2, "NO_DOT", TRUE)
    ELSE
    LET w3 == get_symbol(w2) IN
    IF w3.symbol.type # "NAME" THEN display_error(w3, "INVALID_PORT", TRUE)
    ELSE
    LET w4 == get_symbol(w3) IN
    IF w4.symbol.type # "SEMICOLON" THEN display_error(w4, "NO_SEMICOLON", TRUE)
    ELSE connection_make(w4, f.first_device, f.first_device_port,
                         second_device, w3.symbol.id)

\* what signame returns when it returns None
NoSignal == <<NoneId, NoneId>>

\* Parser.signame: a pair (device, port), or None
signame(w, Monitor_mode) ==
    IF w.symbol.type # "NAME"
    THEN [w |-> display_error(w, "INVALID_DEVICE_NAME", FALSE), val |-> NoSignal]
    ELSE
    LET device == w.symbol.id
        w1 == get_symbol(w)
    IN
    IF w1.symbol.type # "DOT" THEN [w |-> w1, val |-> <<device, NoneId>>]
    ELSE
    LET w2 == get_symbol(w1) IN
    IF w2.symbol.type # "NAME"
    THEN [w |-> display_error(w2, "INVALID_DEVICE_NAME", TRUE), val |-> NoSignal]
    ELSE
    LET port == w2.symbol.id
        w3 == get_symbol(w2)
    IN
    IF port \in dtype_output_ids THEN [w |-> w3, val |-> <<device, port>>]
    ELSE IF port \in dtype_input_ids
    THEN [w |-> w3,
          val |-> IF Monitor_mode THEN <<device, NoneId>> ELSE <<device, port>>]
    \* self.inputs is not an attribute of Parser
    ELSE [w |-> Raise(w3, "AttributeError"), val |-> NoSignal]

\* parse_monitor, lines 390-397: the signals after the first one
RECURSIVE monitor_points(_, _)
monitor_points(w, monitorList) ==
    IF w.symbol.type # "COMMA" THEN [w |-> w, monitorList |-> monitorList]
    ELSE LET r == signame(get_symbol(w), TRUE) IN
         IF r.val = NoSignal THEN [w |-> r.w, monitorList |-> <<>>]
         ELSE monitor_points(r.w, Append(monitorList, r.val))

\* parse_monitor, lines 405-408: every signal of the list, no break
RECURSIVE make_monitors(_, _)
make_monitors(w, monitorList) ==
    IF monitorList = <<>> THEN w
    ELSE LET r == make_monitor(w, Head(monitorList)[1], Head(monitorList)[2])
             w1 == IF r.er # NO_ERROR THEN display_error(r.w, r.er, FALSE)
                   ELSE r.w
         IN make_monitors(w1, Tail(monitorList))

parse_monitor(w) ==
    IF w.symbol.type = "CURLY_CLOSE" THEN w
    ELSE
    LET first == signame(w, TRUE) IN
    IF first.val = NoSignal THEN first.w
    ELSE
    LET r == monitor_points(first.w, <<first.val>>) IN
    IF r.monitorList = <<>> THEN r.w
    ELSE
    LET w1 == expect_semicolon(r.w) IN
    IF w1.error_count = 0 THEN make_monitors(w1, r.monitorList) ELSE w1

\* parse_sections, lines 184-195: one pass through the body of the loop
section_body(w, KEYWORD_) ==
    IF KEYWORD_ = "DEVICE" THEN [w |-> parse_device(w), brk |-> FALSE]
    ELSE IF KEYWORD_ = "CONNECTION" THEN [w |-> parse_connection(w), brk |-> FALSE]
    ELSE IF KEYWORD_ = "MONITOR" THEN [w |-> parse_monitor(w), brk |-> FALSE]
    ELSE IF w.symbol.type = "EOF"
    THEN [w |-> display_error(w, "NO_CURLY_CLOSE", TRUE), brk |-> TRUE]
    ELSE [w |-> w, brk |-> FALSE]

\* parse_sections, lines 173-180: the opening '{'
section_open(w) ==
    LET w1 == ignore_none(get_symbol(w)) IN
    IF w1.symbol.type = "CURLY_OPEN" THEN get_symbol(w1)
    ELSE display_error(w1, "NO_CURLY_OPEN", TRUE)

\* parse_network, lines 166-168: True, or no return value at all
return_value(n) == IF n = 0 THEN "True" ELSE "None"

\* ------------------------------------------------------------------ inputs
Device == KEYWORD(DEVICE_ID)
Connection == KEYWORD(CONNECTION_ID)
Monitor == KEYWORD(MONITOR_ID)
Is == KEYWORD(IS_ID)
Are == KEYWORD(ARE_ID)
Connect == KEYWORD(CONNECT_ID)

\* Device{ A is AND 2 inputs; FF is DTYPE; }
\* Connection{ A connect FF.DATA; FF.Q connect A.I1; } Monitor{ A, FF.Q; }
Circuit1 ==
    <<Device, CURLY_OPEN, NAME("A"), Is, NAME("AND"), NUMBER("2"), FILLER,
      SEMICOLON, NAME("FF"), Is, NAME("DTYPE"), SEMICOLON, CURLY_CLOSE,
      Connection, CURLY_OPEN, NAME("A"), Connect, NAME("FF"), DOT,
      NAME("DATA"), SEMICOLON, NAME("FF"), DOT, NAME("Q"), Connect, NAME("A"),
      DOT, NAME("I1"), SEMICOLON, CURLY_CLOSE,
      Monitor, CURLY_OPEN, NAME("A"), COMMA, NAME("FF"), DOT, NAME("Q"),
      SEMICOLON, CURLY_CLOSE>>

\* Device{ A, B are NAND with 2 inputs; } Connection{ } Monitor{ B, A; }
Circuit2 ==
    <<Device, CURLY_OPEN, NAME("A"), COMMA, NAME("B"), Are, NAME("NAND"),
      FILLER, NUMBER("2"), FILLER, SEMICOLON, CURLY_CLOSE,
      Connection, CURLY_OPEN, CURLY_CLOSE,
      Monitor, CURLY_OPEN, NAME("B"), COMMA, NAME("A"), SEMICOLON,
      CURLY_CLOSE>>

\* Device{ A is AND 2 inputs; } Connection{ } Monitor{ A; }
Circuit3 ==
    <<Device, CURLY_OPEN, NAME("A"), Is, NAME("AND"), NUMBER("2"), FILLER,
      SEMICOLON, CURLY_CLOSE, Connection, CURLY_OPEN, CURLY_CLOSE,
      Monitor, CURLY_OPEN, NAME("A"), SEMICOLON, CURLY_CLOSE>>

\* Device{A,B with 2 inputs;} Connection{}
NoVerbInput ==
    <<Device, CURLY_OPEN, NAME("A"), COMMA, NAME("B"), FILLER, NUMBER("2"),
      FILLER, SEMICOLON, CURLY_CLOSE, Connection, CURLY_OPEN, CURLY_CLOSE>>

\* Device{ A, ; B is AND 2; } Connection{ } Monitor{ B; }
TrailingCommaInput ==
    <<Device, CURLY_OPEN, NAME("A"), COMMA, SEMICOLON, NAME("B"), Is,
      NAME("AND"), NUMBER("2"), SEMICOLON, CURLY_CLOSE,
      Connection, CURLY_OPEN, CURLY_CLOSE,
      Monitor, CURLY_OPEN, NAME("B"), SEMICOLON, CURLY_CLOSE>>

\* Device{ A, B, ; } Connection{ } Monitor{ }
TrailingCommaInput2 ==
    <<Device, CURLY_OPEN, NAME("A"), COMMA, NAME("B"), COMMA, SEMICOLON,
      CURLY_CLOSE, Connection, CURLY_OPEN, CURLY_CLOSE,
      Monitor, CURLY_OPEN, CURLY_CLOSE>>

\* Device{ A is AND 2 inputs; } Connection{ } Monitor{ A }
ScenarioInput ==
    <<Device, CURLY_OPEN, NAME("A"), Is, NAME("AND"), NUMBER("2"), FILLER,
      SEMICOLON, CURLY_CLOSE, Connection, CURLY_OPEN, CURLY_CLOSE,
      Monitor, CURLY_OPEN, NAME("A"), CURLY_CLOSE>>

\* Device{ A, B are DTYPE; } Connection{ } Monitor{ B.Q; }
DtypePairInput ==
    <<Device, CURLY_OPEN, NAME("A"), COMMA, NAME("B"), Are, NAME("DTYPE"),
      SEMICOLON, CURLY_CLOSE, Connection, CURLY_OPEN, CURLY_CLOSE,
      Monitor, CURLY_OPEN, NAME("B"), DOT, NAME("Q"), SEMICOLON, CURLY_CLOSE>>

\* Device{ A is AND 2; } Connection{ } Monitor{ A, A.I1; }
GateInputMonitor ==
    <<Device, CURLY_OPEN, NAME("A"), Is, NAME("AND"), NUMBER("2"), SEMICOLON,
      CURLY_CLOSE, Connection, CURLY_OPEN, CURLY_CLOSE,
      Monitor, CURLY_OPEN, NAME("A"), COMMA, NAME("A"), DOT, NAME("I1"),
      SEMICOLON, CURLY_CLOSE>>

\* Device{ A is DTYPE; } Connection{ } Monitor{ ; }
StrayPunctuation ==
    <<Device, CURLY_OPEN, NAME("A"), Is, NAME("DTYPE"), SEMICOLON,
      CURLY_CLOSE, Connection, CURLY_OPEN, CURLY_CLOSE,
      Monitor, CURLY_OPEN, SEMICOLON, CURLY_CLOSE>>

\* Device{ FF is DTYPE; B is OR 2; } Connection{ ... } Monitor{ B; } with a
\* connection statement whose first device or first port is not resolved
\* and whose recovery ends in front of a well-formed rest
Unresolved(statement) ==
    <<Device, CURLY_OPEN, NAME("FF"), Is, NAME("DTYPE"), SEMICOLON,
      NAME("B"), Is, NAME("OR"), NUMBER("2"), SEMICOLON, CURLY_CLOSE,
      Connection, CURLY_OPEN>> \o statement \o
    <<Connect, NAME("B"), DOT, NAME("I1"), SEMICOLON, CURLY_CLOSE,
      Monitor, CURLY_OPEN, NAME("B"), SEMICOLON, CURLY_CLOSE>>

UnresolvedInputs ==
    {\* X ; A connect B.I1;
     Unresolved(<<NAME("X"), SEMICOLON, NAME("A")>>),
     \* FF ; connect B.I1;
     Unresolved(<<NAME("FF"), SEMICOLON>>),
     \* FF.X ; Y connect B.I1;
     Unresolved(<<NAME("FF"), DOT, NAME("X"), SEMICOLON, NAME("Y")>>)}

DeviceBlock == <<Device, CURLY_OPEN, NAME("A"), Is, NAME("DTYPE"), SEMICOLON,
                 CURLY_CLOSE>>
ConnectionBlock == <<Connection, CURLY_OPEN, CURLY_CLOSE>>
MonitorBlock == <<Monitor, CURLY_OPEN, NAME("A"), DOT, NAME("Q"), SEMICOLON,
                  CURLY_CLOSE>>

Blocks == {DeviceBlock, ConnectionBlock, MonitorBlock}

\* the three sections in any order, and with one of them written twice
SectionOrders ==
    {a \o b \o c : a \in Blocks, b \in Blocks, c \in Blocks}
    \cup {DeviceBlock \o ConnectionBlock \o MonitorBlock \o d : d \in Blocks}

Others ==
    {<<>>,
     \* is Device{ } Connection{ } Monitor{ } A B
     <<Is, Device, FILLER, CURLY_OPEN, CURLY_CLOSE, Connection, CURLY_OPEN,
       CURLY_CLOSE, Monitor, CURLY_OPEN, CURLY_CLOSE, NAME("A"), NAME("B")>>,
     \* Device{ A is DTYPE; } ; Connection{ } Monitor{ A.I1; }
     <<Device, CURLY_OPEN, NAME("A"), Is, NAME("DTYPE"), SEMICOLON,
       CURLY_CLOSE, SEMICOLON, Connection, CURLY_OPEN, CURLY_CLOSE,
       Monitor, CURLY_OPEN, NAME("A"), DOT, NAME("I1"), SEMICOLON,
       CURLY_CLOSE>>,
     \* Device A is FOO 2; }
     <<Device, NAME("A"), Is, NAME("FOO"), NUMBER("2"), SEMICOLON,
       CURLY_CLOSE>>,
     \* Device{ FF is DTYPE; B is OR 2; } Connection{ FF connect B.I1;
     \* FF.X connect B.I1; C connect B.I1; B connect FF DATA; }
     <<Device, CURLY_OPEN, NAME("FF"), Is, NAME("DTYPE"), SEMICOLON,
       NAME("B"), Is, NAME("OR"), NUMBER("2"), SEMICOLON, CURLY_CLOSE,
       Connection, CURLY_OPEN, NAME("FF"), Connect, NAME("B"), DOT,
       NAME("I1"), SEMICOLON, NAME("FF"), DOT, NAME("X"), Connect, NAME("B"),
       DOT, NAME("I1"), SEMICOLON, NAME("C"), Connect, NAME("B"), DOT,
       NAME("I1"), SEMICOLON, NAME("B"), Connect, NAME("FF"), NAME("DATA"),
       SEMICOLON, CURLY_CLOSE>>,
     \* Device{ A, B are OR 2; } Connection{ } Monitor{ A, A, B; }
     <<Device, CURLY_OPEN, NAME("A"), COMMA, NAME("B"), Are, NAME("OR"),
       NUMBER("2"), SEMICOLON, CURLY_CLOSE, Connection, CURLY_OPEN,
       CURLY_CLOSE, Monitor, CURLY_OPEN, NAME("A"), COMMA, NAME("A"), COMMA,
       NAME("B"), SEMICOLON, CURLY_CLOSE>>}

Bases ==
    {Circuit1, Circuit2, Circuit3, NoVerbInput, TrailingCommaInput,
     TrailingCommaInput2, ScenarioInput, DtypePairInput, GateInputMonitor,
     StrayPunctuation}
        \cup SectionOrders \cup Others \cup UnresolvedInputs

Drop(s, i) == SubSeq(s, 1, i - 1) \o SubSeq(s, i + 1, Len(s))

\* an input, the same with one symbol missing, and the same cut short
Variants(s) ==
    {s} \cup {Drop(s, i) : i \in 1..Len(s)}
        \cup {SubSeq(s, 1, i) : i \in 0..Len(s)}

Mutated == {Circuit1, Circuit2, NoVerbInput, TrailingCommaInput}

\* a filler word written after the i-th symbol
InsertFiller(s, i) == SubSeq(s, 1, i) \o <<FILLER>> \o SubSeq(s, i + 1, Len(s))

\* '# c', then Device{ A is AND 2 inputs; } Connection{ } Monitor{ A; }
FillerBase == <<LINECOMMENT>> \o Circuit3

\* the same with one more filler word after any symbol from Device on
FillerInputs == {InsertFiller(FillerBase, i) : i \in 2..Len(FillerBase)}

\* every input as written, and behind a leading '#' comment line
Inputs ==
    LET plain == Bases \cup UNION {Variants(b) : b \in Mutated}
    IN plain \cup {<<LINECOMMENT>> \o s : s \in plain} \cup FillerInputs

\* ------------------------------------------------- the name table (names.py)
\* A Python string is the sequence of its characters; the other Python
\* values that cross the interface of Names are tagged records.
PyNone == [t |-> "None"]
PyInt(n) == [t |-> "int", n |-> n]
PyStr(s) == [t |-> "str", s |-> s]
PyList(l) == [t |-> "list", l |-> l]
PyRange(lo, hi) == [t |-> "range", lo |-> lo, hi |-> hi]
\* the builtin function id, which the name id denotes until it is assigned
PyBuiltinId == [t |-> "builtin"]

\* the characters the inputs are written in
Alpha ==
    {"A", "B", "C", "D", "E", "F", "G", "H", "I", "J", "K", "L", "M", "N",
     "O", "P", "Q", "R", "S", "T", "U", "V", "W", "X", "Y", "Z", "a", "b",
     "c", "d", "e", "f", "g", "h", "i", "j", "k", "l", "m", "n", "o", "p",
     "q", "r", "s", "t", "u", "v", "w", "x", "y", "z"}
Digit == {"0", "1", "2", "3", "4", "5", "6", "7", "8", "9"}

\* str.isalnum, str.isdigit: every character, and at least one
isalnum(s) == s # <<>> /\ \A i \in 1..Len(s) : s[i] \in Alpha \cup Digit
isdigit(s) == s # <<>> /\ \A i \in 1..Len(s) : s[i] \in Digit

DigitChar(d) ==
    CASE d = 0 -> "0" [] d = 1 -> "1" [] d = 2 -> "2" [] d = 3 -> "3"
      [] d = 4 -> "4" [] d = 5 -> "5" [] d = 6 -> "6" [] d = 7 -> "7"
      [] d = 8 -> "8" [] d = 9 -> "9"

RECURSIVE DecimalText(_)
DecimalText(n) ==
    IF n < 10 THEN <<DigitChar(n)>>
    ELSE DecimalText(n \div 10) \o <<DigitChar(n % 10)>>

\* str(x) for a string or an integer
str(v) ==
    IF v.t = "str" THEN v.s
    ELSE IF v.n < 0 THEN <<"-">> \o DecimalText(0 - v.n)
    ELSE DecimalText(v.n)

\* x in list, and list.index(x)
In(l, x) == \E i \in 1..Len(l) : l[i] = x
index(l, x) ==
    (CHOOSE i \in 1..Len(l) : l[i] = x /\ \A j \in 1..(i - 1) : l[j] # x) - 1

\* how a method of Names ends: with a value, or with an exception
Returns(nt, v) == [names |-> nt, result |-> v, exc |-> "none"]
Raises(nt, e) == [names |-> nt, result |-> PyNone, exc |-> e]

\* Names.__init__
NoCall ==
    [op |-> "none", arg |-> PyNone, result |-> PyNone, exc |-> "none",
     names0 |-> <<>>, count0 |-> 0]

NamesNew ==
    /\ names = <<>>
    /\ error_code_count = 0
    /\ call = NoCall
    /\ issued = <<>>

\* Names.unique_error_codes
unique_error_codes(ecc, num_error_codes) ==
    IF num_error_codes.t # "int"
    THEN [error_code_count |-> ecc, result |-> PyNone, exc |-> "TypeError"]
    ELSE LET count == ecc + num_error_codes.n IN
         [error_code_count |-> count,
          result |-> PyRange(count - num_error_codes.n, count),
          exc |-> "none"]

\* query adding the string it does not find
query_adding(nt, name_string) ==
    LET s == str(name_string) IN
    IF ~isalnum(s) THEN Raises(nt, "SyntaxError")
    ELSE IF isdigit(s) THEN Raises(nt, "SyntaxError")
    ELSE IF In(nt, s) THEN Returns(nt, PyInt(index(nt, s)))
    ELSE Returns(Append(nt, s), PyNone)

\* Names.query: both branches of the type test run the same checks, the
\* first one on str(name_string)
query(nt, name_string) ==
    LET s == str(name_string) IN
    IF ~isalnum(s) THEN Raises(nt, "SyntaxError")
    ELSE IF isdigit(s) THEN Raises(nt, "SyntaxError")
    ELSE IF In(nt, s) THEN Returns(nt, PyInt(index(nt, s)))
    ELSE Returns(nt, PyNone)

\* lookup, lines 100-109: the loop, and 'return id'
RECURSIVE lookup_loop(_, _, _, _)
lookup_loop(nt, name_string_list, ids, id) ==
    IF name_string_list = <<>> THEN Returns(nt, id)
    ELSE LET name_string == Head(name_string_list)
             nt1 == IF ~In(nt, name_string) THEN Append(nt, name_string)
                    ELSE nt
             id1 == PyInt(index(nt1, name_string))
         IN lookup_loop(nt1, Tail(name_string_list), Append(ids, id1), id1)

\* lookup without its type tests, adding every string it is given
lookup_appending(nt, name_string_list) ==
    IF name_string_list.t # "list" THEN Raises(nt, "TypeError")
    ELSE Returns(nt \o name_string_list.l, PyNone)

\* Names.lookup: the two type tests reject every argument
lookup(nt, name_string_list) ==
    IF name_string_list.t # "str" THEN Raises(nt, "TypeError")
    ELSE IF name_string_list.t # "list" THEN Raises(nt, "TypeError")
    ELSE lookup_loop(nt, name_string_list.l, <<>>, PyBuiltinId)

\* get_name_string without the test for a negative id
get_name_string_unchecked(nt, name_id) ==
    IF 0 <= name_id /\ name_id < Len(nt)
    THEN Returns(nt, PyStr(nt[name_id + 1]))
    ELSE Returns(nt, PyNone)

\* Names.get_name_string
get_name_string(nt, name_id) ==
    IF name_id < 0 THEN Raises(nt, "ValueError")
    ELSE IF name_id < Len(nt) THEN Returns(nt, PyStr(nt[name_id + 1]))
    ELSE Returns(nt, PyNone)

\* ---------------------------------------------------- the scanner (scanner.py)
\* lookup as the Scanner needs it of the name table it is handed: the list
\* of the ids of the strings, each string added if it was not present
RECURSIVE Interned(_, _)
Interned(nt, l) ==
    IF l = <<>> THEN nt
    ELSE Interned(IF In(nt, Head(l)) THEN nt ELSE Append(nt, Head(l)), Tail(l))

lookup_contract(nt, name_string_list) ==
    IF name_string_list.t # "list" THEN Raises(nt, "TypeError")
    ELSE LET nt1 == Interned(nt, name_string_list.l) IN
         Returns(nt1, PyList([i \in 1..Len(name_string_list.l) |->
                                 PyInt(index(nt1, name_string_list.l[i]))]))

\* self.names.lookup(...): the method of the object the Scanner was given
names_lookup(class, nt, name_string_list) ==
    IF class = "Names" THEN lookup(nt, name_string_list)
    ELSE lookup_contract(nt, name_string_list)

keywords_list ==
    <<(<<"D", "e", "v", "i", "c", "e">>), (<<"d", "e", "v", "i", "c", "e">>),
      (<<"C", "o", "n", "n", "e", "c", "t", "i", "o", "n">>),
      (<<"M", "o", "n", "i", "t", "o", "r">>), (<<"i", "s">>),
      (<<"a", "r", "e">>), (<<"i", "n", "p", "u", "t">>),
      (<<"c", "o", "n", "n", "e", "c", "t">>)>>

ignore ==
    {<<"g", "a", "t", "e">>, <<"g", "a", "t", "e", "s">>, <<"a">>,
     <<"a", "n">>, <<"w", "i", "t", "h">>, <<"s", "o", "m", "e">>,
     <<"i", "n", "i", "t", "i", "a", "l", "l", "y">>,
     <<"i", "n", "p", "u", "t", "s">>,
     <<"c", "o", "n", "n", "e", "c", "t", "e", "d">>,
     <<"c", "y", "c", "l", "e", "s">>,
     <<"s", "i", "m", "u", "l", "a", "t", "i", "o", "n">>}

\* str.isalpha, str.isdigit, str.isalnum, str.isspace of one character; the
\* empty string, which advance returns at the end of the input, is in none
isalpha(c) == c \in Alpha
isnumeral(c) == c \in Digit
isalnumeric(c) == c \in Alpha \cup Digit
isspace(c) == c \in {" ", "\n", "\t"}

\* Scanner.__init__, lines 64-69: a string to index, or a file to read
read_as_string == source = "string"

\* no call of get_symbol yet
NoScan == [begin |-> 0, first |-> 0, end |-> 0, outcome |-> "none"]

\* what the scanner methods read and write
ScannerState ==
    [current_character |-> current_character,
     character_count |-> character_count,
     current_line_number |-> current_line_number,
     current_position |-> current_position, names |-> names]

\* advance, lines 215-221: the position and line bookkeeping
moved(s) ==
    LET s1 == [s EXCEPT !.current_position = @ + 1] IN
    IF s1.current_character = "\n"
    THEN [s1 EXCEPT !.current_line_number = @ + 1, !.current_position = 0 - 1]
    ELSE s1

\* Scanner.advance: a string is indexed, and past its end the method
\* returns before the bookkeeping; a file is read, and read(1) returns ''
advance(s) ==
    IF s.character_count >= Len(input_file)
    THEN IF read_as_string THEN [s EXCEPT !.current_character = ""]
         ELSE moved([s EXCEPT !.current_character = ""])
    ELSE moved([s EXCEPT !.current_character = input_file[s.character_count + 1],
                         !.character_count = @ + 1])

\* Scanner.skip_spaces
RECURSIVE skip_spaces(_)
skip_spaces(s) ==
    IF isspace(s.current_character) THEN skip_spaces(advance(s)) ELSE s

\* Scanner.get_name: the loop, from the second character on
RECURSIVE get_name_loop(_, _)
get_name_loop(s, name) ==
    LET s1 == advance(s) IN
    IF isalnumeric(s1.current_character)
    THEN get_name_loop(s1, Append(name, s1.current_character))
    ELSE [s |-> s1, name |-> name]

get_name(s) == get_name_loop(s, <<s.current_character>>)

\* Scanner.get_number: the loop, from the second digit on
RECURSIVE get_number_loop(_, _)
get_number_loop(s, num) ==
    LET s1 == advance(s) IN
    IF isnumeral(s1.current_character)
    THEN get_number_loop(s1, Append(num, s1.current_character))
    ELSE [s |-> s1, num |-> num]

\* get_number stopping after the first digit
get_number_first_digit(s) == [s |-> advance(s), num |-> <<s.current_character>>]

get_number(s) == get_number_loop(s, <<s.current_character>>)

\* how get_symbol ends: it returns a symbol, raises, or never returns
Symbol(at, type, id) ==
    [type |-> type, id |-> id, line_number |-> at.current_line_number,
     position |-> at.current_position]

NoSymbol == [type |-> "unset", id |-> PyNone, line_number |-> 0, position |-> 0]

Return_(s, at, type, id) ==
    [s |-> s, outcome |-> "returned", exc |-> "none", symbol |-> Symbol(at, type, id)]

Raise_(s, exc) ==
    [s |-> s, outcome |-> "raised", exc |-> exc, symbol |-> NoSymbol]

Hang_(s) == [s |-> s, outcome |-> "hung", exc |-> "none", symbol |-> NoSymbol]

\* get_symbol, lines 168-169: advance until the newline; at the end of the
\* input the current character stays '' and the loop never ends
RECURSIVE line_comment(_, _)
line_comment(s, at) ==
    IF s.current_character = "\n" THEN Return_(s, at, "LINECOMMENT", PyNone)
    ELSE IF s.current_character = "" THEN Hang_(s)
    ELSE line_comment(advance(s), at)

\* get_symbol, lines 179-188: the loop counts slashes and never advances
RECURSIVE bulk_comment(_, _)
bulk_comment(s, consec_slashes) ==
    IF consec_slashes >= 2 THEN [s |-> s, outcome |-> "returned"]
    ELSE IF s.current_character = "/" THEN bulk_comment(s, consec_slashes + 1)
    ELSE IF s.current_character = "" THEN [s |-> s, outcome |-> "raised"]
    ELSE [s |-> s, outcome |-> "hung"]

\* a word, with the words of ignore looked up in the name table as well
word_interning_fillers(class, s) ==
    LET r == get_name(s)
        at == s
        l == names_lookup(class, r.s.names, PyList(<<r.name>>))
    IN
    IF In(keywords_list, r.name)
    THEN Return_(r.s, at, "KEYWORD", query(r.s.names, PyStr(r.name)).result)
    ELSE IF l.exc # "none" THEN Raise_(r.s, l.exc)
    ELSE IF r.name \in ignore
    THEN Return_([r.s EXCEPT !.names = l.names], at, "None", PyNone)
    ELSE Return_([r.s EXCEPT !.names = l.names], at, "NAME", l.result.l[1])

\* get_symbol, lines 115-128: a word
word(class, s) ==
    LET r == get_name(s)
        at == s
    IN
    IF r.name \in ignore THEN Return_(r.s, at, "None", PyNone)
    ELSE IF In(keywords_list, r.name)
    THEN LET q == query(r.s.names, PyStr(r.name)) IN
         IF q.exc # "none" THEN Raise_(r.s, q.exc)
         ELSE Return_(r.s, at, "KEYWORD", q.result)
    ELSE LET l == names_lookup(class, r.s.names, PyList(<<r.name>>)) IN
         IF l.exc # "none" THEN Raise_(r.s, l.exc)
         ELSE IF l.result.t # "list" THEN Raise_(r.s, "TypeError")
         ELSE Return_([r.s EXCEPT !.names = l.names], at, "NAME", l.result.l[1])

\* get_symbol reading on at the end of the input
Scanner_get_symbol_reading_on(class, s0) ==
    LET s == skip_spaces(s0)
        c == s.current_character
    IN
    IF isalpha(c) THEN word(class, s)
    ELSE IF isnumeral(c)
    THEN LET r == get_number(s) IN Return_(r.s, s, "NUMBER", PyStr(r.num))
    ELSE IF c = "," THEN Return_(advance(s), s, "COMMA", PyNone)
    ELSE IF c = "{" THEN Return_(advance(s), s, "CURLY_OPEN", PyNone)
    ELSE IF c = "}" THEN Return_(advance(s), s, "CURLY_CLOSE", PyNone)
    ELSE IF c = ";" THEN Return_(advance(s), s, "SEMICOLON", PyNone)
    ELSE IF c = "." THEN Return_(advance(s), s, "DOT", PyNone)
    ELSE IF c = "#" THEN line_comment(advance(s), s)
    ELSE IF c = "/"
    THEN LET s1 == advance(s) IN
         IF s1.current_character # "/" THEN Return_(s1, s, "BULKCOMMENT", PyNone)
         ELSE LET b == bulk_comment(s1, 0) IN
              IF b.outcome = "raised" THEN Raise_(b.s, "SyntaxError")
              ELSE IF b.outcome = "hung" THEN Hang_(b.s)
              ELSE Return_(advance(b.s), s, "BULKCOMMENT", PyNone)
    ELSE IF c = "" THEN Return_(advance(s), s, "EOF", PyNone)
    ELSE Raise_(s, "SyntaxError")

\* Scanner.get_symbol
Scanner_get_symbol(class, s0) ==
    LET s == skip_spaces(s0)
        c == s.current_character
    IN
    IF isalpha(c) THEN word(class, s)
    ELSE IF isnumeral(c)
    THEN LET r == get_number(s) IN Return_(r.s, s, "NUMBER", PyStr(r.num))
    ELSE IF c = "," THEN Return_(advance(s), s, "COMMA", PyNone)
    ELSE IF c = "{" THEN Return_(advance(s), s, "CURLY_OPEN", PyNone)
    ELSE IF c = "}" THEN Return_(advance(s), s, "CURLY_CLOSE", PyNone)
    ELSE IF c = ";" THEN Return_(advance(s), s, "SEMICOLON", PyNone)
    ELSE IF c = "." THEN Return_(advance(s), s, "DOT", PyNone)
    ELSE IF c = "#" THEN line_comment(advance(s), s)
    ELSE IF c = "/"
    THEN LET s1 == advance(s) IN
         IF s1.current_character # "/" THEN Return_(s1, s, "BULKCOMMENT", PyNone)
         ELSE LET b == bulk_comment(s1, 0) IN
              IF b.outcome = "raised" THEN Raise_(b.s, "SyntaxError")
              ELSE IF b.outcome = "hung" THEN Hang_(b.s)
              ELSE Return_(advance(b.s), s, "BULKCOMMENT", PyNone)
    ELSE IF c = "" THEN Return_(s, s, "EOF", PyNone)
    ELSE Raise_(s, "SyntaxError")

\* no Scanner has been constructed
ScannerIdle ==
    /\ input_file = <<>>
    /\ source = "string"
    /\ names_class = "Names"
    /\ current_character = " "
    /\ character_count = 0
    /\ current_line_number = 0
    /\ current_position = 0
    /\ returned = NoSymbol
    /\ scan = NoScan

\* ----------------------------------------------------------- state machine
\* Scanner and Parser constructed on the input: Parser.__init__ pulls the
\* first symbol (line 49) and zeroes the counters (lines 102-107).
Init ==
    /\ tokens \in Inputs
    /\ badDev \in {{}, {"A"}, {"B"}}
    /\ badMon \in {{}, {"B"}}
    /\ badCon \in BOOLEAN
    /\ pc = "start"
    /\ section = "none"
    /\ stmt = 0
    /\ word_number = 1
    /\ symbol = SymbolAt(1)
    /\ error_count = 0
    /\ device_section = FALSE
    /\ connection_section = FALSE
    /\ monitor_section = FALSE
    /\ devices_list = {}
    /\ monitors_dictionary = {}
    /\ calls = <<>>
    /\ errlog = <<>>
    /\ fault = "none"
    /\ ret = "unset"
    /\ NamesNew
    /\ ScannerIdle

Fixed ==
    /\ UNCHANGED <<tokens, badDev, badMon, badCon>>
    /\ UNCHANGED namesVars
    /\ UNCHANGED scannerVars
Flags == <<device_section, connection_section, monitor_section>>

\* parse_network, lines 118-119
Enter ==
    /\ pc = "start"
    /\ Commit(IF symbol.type = "EOF"
              THEN display_error(World, "NO_SECTIONS", TRUE) ELSE World)
    /\ pc' = "loop"
    /\ UNCHANGED <<section, stmt, ret>> /\ UNCHANGED Flags /\ Fixed

\* line 121: the while test fails
LoopExit ==
    /\ pc = "loop"
    /\ symbol.type = "EOF"
    /\ pc' = "finish"
    /\ UNCHANGED <<section, stmt, symbol, word_number, error_count,
                   devices_list, monitors_dictionary, calls, errlog, fault,
                   ret>>
    /\ UNCHANGED Flags /\ Fixed

\* lines 122-128: the next symbol is the keyword Device
EnterDevice ==
    /\ pc = "loop"
    /\ symbol.type # "EOF"
    /\ LET w == get_symbol(World) IN
       /\ w.symbol = KEYWORD(DEVICE_ID)
       /\ Commit(w)
    /\ device_section' = TRUE
    /\ section' = "DEVICE"
    /\ pc' = "sections"
    /\ UNCHANGED <<stmt, ret, connection_section, monitor_section>> /\ Fixed

\* lines 131-133: the next symbol is the keyword Connection
EnterConnection ==
    /\ pc = "loop"
    /\ symbol.type # "EOF"
    /\ LET w == get_symbol(World) IN
       /\ w.symbol = KEYWORD(CONNECTION_ID)
       /\ Commit(w)
    /\ connection_section' = TRUE
    /\ section' = "CONNECTION"
    /\ pc' = "sections"
    /\ UNCHANGED <<stmt, ret, device_section, monitor_section>> /\ Fixed

\* lines 143-145: the next symbol is the keyword Monitor
EnterMonitor ==
    /\ pc = "loop"
    /\ symbol.type # "EOF"
    /\ LET w == get_symbol(World) IN
       /\ w.symbol = KEYWORD(MONITOR_ID)
       /\ Commit(w)
    /\ monitor_section' = TRUE
    /\ section' = "MONITOR"
    /\ pc' = "sections"
    /\ UNCHANGED <<stmt, ret, device_section, connection_section>> /\ Fixed

\* lines 124-145: any other keyword falls through the if/elif chain
OtherKeyword ==
    /\ pc = "loop"
    /\ symbol.type # "EOF"
    /\ LET w == get_symbol(World) IN
       /\ w.symbol.type = "KEYWORD"
       /\ w.symbol.id \notin {DEVICE_ID, CONNECTION_ID, MONITOR_ID}
       /\ Commit(w)
    /\ pc' = "loop"
    /\ UNCHANGED <<section, stmt, ret>> /\ UNCHANGED Flags /\ Fixed

\* lines 155-160: not a keyword; an error if a section is missing, then break
NotKeyword ==
    /\ pc = "loop"
    /\ symbol.type # "EOF"
    /\ LET w == get_symbol(World) IN
       /\ w.symbol.type # "KEYWORD"
       /\ Commit(IF ~device_section \/ ~connection_section \/ ~monitor_section
                 THEN display_error(w, "NO_SECTIONS", TRUE) ELSE w)
    /\ pc' = "finish"
    /\ UNCHANGED <<section, stmt, ret>> /\ UNCHANGED Flags /\ Fixed

\* parse_sections, lines 173-180
SectionOpen ==
    /\ pc = "sections"
    /\ Commit(section_open(World))
    /\ pc' = "section_loop"
    /\ stmt' = 0
    /\ UNCHANGED <<section, ret>> /\ UNCHANGED Flags /\ Fixed

\* parse_sections, lines 182-195: one statement of the section
Statement ==
    /\ pc = "section_loop"
    /\ symbol.type # "CURLY_CLOSE"
    /\ LET r == section_body([World EXCEPT !.stmt = word_number], section) IN
       /\ r.w.word_number = word_number => error_count < MaxErrors
       /\ Commit(r.w)
       /\ pc' = IF r.w.fault # "none" THEN "raised"
                ELSE IF r.brk THEN "loop" ELSE "section_loop"
    /\ stmt' = word_number
    /\ UNCHANGED <<section, ret>> /\ UNCHANGED Flags /\ Fixed

\* parse_sections, line 182: the '}' ends the section
SectionClose ==
    /\ pc = "section_loop"
    /\ symbol.type = "CURLY_CLOSE"
    /\ pc' = "loop"
    /\ UNCHANGED <<section, stmt, symbol, word_number, error_count,
                   devices_list, monitors_dictionary, calls, errlog, fault,
                   ret>>
    /\ UNCHANGED Flags /\ Fixed

\* parse_network, lines 164-168
Return ==
    /\ pc = "finish"
    /\ ret' = return_value(error_count)
    /\ pc' = "done"
    /\ UNCHANGED <<section, stmt, symbol, word_number, error_count,
                   devices_list, monitors_dictionary, calls, errlog, fault>>
    /\ UNCHANGED Flags /\ Fixed

Next ==
    \/ Enter
    \/ LoopExit
    \/ EnterDevice
    \/ EnterConnection
    \/ EnterMonitor
    \/ OtherKeyword
    \/ NotKeyword
    \/ SectionOpen
    \/ Statement
    \/ SectionClose
    \/ Return

Spec == Init /\ [][Next]_vars

\* ================================================================ properties
HasKeyword(k) == \E i \in 1..Len(tokens) : tokens[i] = KEYWORD(k)

AllAccepting == badDev = {} /\ badMon = {} /\ ~badCon

Returned == pc = "done"

\* the display_error calls so far that reported this code
Reports(code) == {i \in 1..Len(errlog) : errlog[i].code = code}

\* C1: every well-formed input (Device{...} Connection{...} Monitor{...},
\* every statement grammatical, every collaborator call succeeding) makes
\* parse_network return True with error_count = 0.
WellFormedInputs ==
    {Circuit1, Circuit2, Circuit3,
     DeviceBlock \o ConnectionBlock \o MonitorBlock}

C1_WellFormedParses ==
    (tokens \in WellFormedInputs /\ AllAccepting /\ pc \in {"done", "raised"})
        => (ret = "True" /\ error_count = 0)

\* C2: parse_network returns true exactly when error_count = 0 and the three
\* section flags are all true at the end of the pass, and false otherwise.
C2_ReturnsSuccessBoolean ==
    Returned =>
        /\ ret \in {"True", "False"}
        /\ ret = "True" <=>
              (error_count = 0 /\ device_section /\ connection_section
                               /\ monitor_section)

\* C3: when one of the three sections does not occur in the input,
\* parse_network returns false (here: anything but True), and each section
\* flag is true exactly if the section's keyword occurs in the input.
SectionAbsent ==
    \E k \in {DEVICE_ID, CONNECTION_ID, MONITOR_ID} : ~HasKeyword(k)

C3_MissingSectionFlags ==
    (Returned /\ SectionAbsent) =>
        /\ ret # "True"
        /\ device_section <=> HasKeyword(DEVICE_ID)
        /\ connection_section <=> HasKeyword(CONNECTION_ID)
        /\ monitor_section <=> HasKeyword(MONITOR_ID)

\* C4: no builder (make_device, make_connection, make_monitor) is called
\* while error_count > 0.
C4_NoBuildAfterError ==
    \A i \in 1..Len(calls) : calls[i].error_count = 0

\* C5: when parse_network returns, the current symbol is EOF: the whole
\* input has been read, whatever errors occurred.
C5_ReadsToEnd == Returned => symbol.type = "EOF"

\* C6: a section keyword that occurs twice, or sections in an order other
\* than Device, Connection, Monitor, make the parser record an error.
SectionKeywords ==
    SelectSeq(tokens, LAMBDA t : t \in {Device, Connection, Monitor})

Rank(t) == IF t = Device THEN 1 ELSE IF t = Connection THEN 2 ELSE 3

Misordered ==
    \E i, j \in 1..Len(SectionKeywords) :
        i < j /\ Rank(SectionKeywords[i]) >= Rank(SectionKeywords[j])

C6_MisorderIsError == (Returned /\ Misordered) => error_count > 0

\* the first symbol at or after index p that ends a recovery
FirstEnding(p) ==
    CHOOSE q \in p..(IF p > Len(tokens) THEN p ELSE Len(tokens) + 1) :
        /\ SymbolAt(q).type \in ending_symbols
        /\ \A r \in p..(q - 1) : SymbolAt(r).type \notin ending_symbols

\* C7 as claimed: a recovering display_error adds one to error_count, stops
\* at the first ';', '}' or EOF and consumes that delimiter, so that the
\* current symbol is the one after it (at EOF every later symbol is EOF, and
\* either position is accepted here).
C7_RecoveryConsumesDelimiter ==
    \A i \in 1..Len(errlog) :
        errlog[i].skip =>
            LET q == FirstEnding(errlog[i].at0) IN
            /\ errlog[i].cnt1 = errlog[i].cnt0 + 1
            /\ errlog[i].at1 \in IF SymbolAt(q).type = "EOF" THEN {q, q + 1}
                                  ELSE {q + 1}
            /\ errlog[i].sym1 = SymbolAt(errlog[i].at1)

\* C7 amended: a recovering display_error adds one to error_count and stops
\* at the first ';', '}' or EOF at or after the offending symbol; it consumes
\* that delimiter only when it is a ';' (a '}' or EOF stays the current
\* symbol).
C7_RecoveryConsumesSemicolon ==
    \A i \in 1..Len(errlog) :
        errlog[i].skip =>
            LET q == FirstEnding(errlog[i].at0) IN
            /\ errlog[i].cnt1 = errlog[i].cnt0 + 1
            /\ errlog[i].at1 = IF SymbolAt(q).type = "SEMICOLON" THEN q + 1
                               ELSE q
            /\ errlog[i].sym1 = SymbolAt(errlog[i].at1)

\* a recovery that skipped symbols up to a ';' and consumed it, and one that
\* stopped on a '}'
C7_Witness ==
    /\ \E i \in 1..Len(errlog) :
          /\ errlog[i].skip
          /\ errlog[i].at1 > errlog[i].at0 + 1
          /\ SymbolAt(errlog[i].at1 - 1).type = "SEMICOLON"
    /\ \E i \in 1..Len(errlog) :
          /\ errlog[i].skip
          /\ errlog[i].at1 > errlog[i].at0
          /\ errlog[i].sym1.type = "CURLY_CLOSE"

\* C8: at EOF inside a section the parser reports NO_CURLY_CLOSE and leaves
\* the section; it does not go round the statement loop again.
C8_EofEndsSection ==
    [][(pc = "section_loop" /\ symbol.type = "EOF") =>
          /\ pc' # "section_loop"
          /\ Len(errlog') = Len(errlog) + 1
          /\ errlog'[Len(errlog')].code = "NO_CURLY_CLOSE"]_vars

\* C9: on Device{A,B with 2 inputs;} Connection{} the missing linking verb
\* is reported exactly once and the Connection section is still entered.
C9_NoVerbReportedOnce ==
    (tokens = NoVerbInput /\ pc \in {"done", "raised"}) =>
        /\ Cardinality(Reports("NO_LINKING_VERB")) = 1
        /\ connection_section

\* a device statement at index p whose name list ends ", ;": k names, each
\* followed by a comma, then the ';' at index p + 2k
TrailingCommaAt(p, k) ==
    /\ \A j \in 0..(k - 1) :
          /\ SymbolAt(p + 2 * j).type = "NAME"
          /\ SymbolAt(p + 2 * j + 1).type = "COMMA"
    /\ SymbolAt(p + 2 * k).type = "SEMICOLON"

\* C10: a device statement whose name list ends in a comma with no name
\* after it ('A, ;') makes parse_device report INVALID_DEVICE_NAME at the
\* ';', resume right after that ';', and raise no exception.
C10_TrailingCommaRecovers ==
    \A k \in 1..Len(tokens) :
        (section = "DEVICE" /\ stmt > 0 /\ TrailingCommaAt(stmt, k)) =>
            /\ fault = "none"
            /\ \E i \in 1..Len(errlog) :
                  /\ errlog[i].stmt = stmt
                  /\ errlog[i].code = "INVALID_DEVICE_NAME"
                  /\ errlog[i].at0 = stmt + 2 * k
                  /\ errlog[i].at1 = stmt + 2 * k + 1

\* parse_device has just handled 'A, B, ;'
C10_Witness ==
    /\ section = "DEVICE"
    /\ stmt > 0
    /\ TrailingCommaAt(stmt, 2)
    /\ pc = "section_loop"

\* the builder calls so far to this function
CallsTo(fn) == {i \in 1..Len(calls) : calls[i].fn = fn}

\* C11: on Device{ A is AND 2 inputs; } Connection{ } Monitor{ A } with every
\* builder call succeeding, parse_network returns True, make_device is
\* called exactly once, with (A, AND, 2), make_connection is never called
\* and make_monitor is called exactly once, with (A, None).
C11_Scenario ==
    (tokens = ScenarioInput /\ AllAccepting /\ pc \in {"done", "raised"}) =>
        /\ ret = "True"
        /\ Cardinality(CallsTo("make_device")) = 1
        /\ \A i \in CallsTo("make_device") : calls[i].args = <<"A", "AND", 2>>
        /\ CallsTo("make_connection") = {}
        /\ Cardinality(CallsTo("make_monitor")) = 1
        /\ \A i \in CallsTo("make_monitor") : calls[i].args = <<"A", NoneId>>

\* C12: the symbol that Parser.__init__ pulled is examined by parse_network:
\* in a well-formed file, which starts with the keyword Device, the flag
\* device_section is set before a second symbol is asked of the scanner.
C12_FirstTokenExamined ==
    (tokens \in WellFormedInputs /\ word_number > 1) => device_section

\* ============================================== the name table on its own
\* the parser is not running
ParserIdle ==
    /\ tokens = <<>>
    /\ badDev = {}
    /\ badMon = {}
    /\ badCon = FALSE
    /\ section = "none"
    /\ stmt = 0
    /\ word_number = 0
    /\ symbol = EOF
    /\ error_count = 0
    /\ device_section = FALSE
    /\ connection_section = FALSE
    /\ monitor_section = FALSE
    /\ devices_list = {}
    /\ monitors_dictionary = {}
    /\ calls = <<>>
    /\ errlog = <<>>
    /\ fault = "none"
    /\ ret = "unset"

\* strings shaped like an identifier, and strings that are not
NameStrings == {<<"A">>, <<"B">>, <<"a", "1">>}
OtherStrings == {<<>>, <<"1", "2">>, <<"1", "A">>, <<"A", " ">>, <<"+">>}

IsIdentifier(s) ==
    /\ s # <<>>
    /\ s[1] \in Alpha
    /\ \A i \in 1..Len(s) : s[i] \in Alpha \cup Digit

\* lists of at most two strings
StringLists ==
    LET S == NameStrings \cup {<<"1", "A">>, <<"+">>} IN
    {<<>>} \cup {<<x>> : x \in S} \cup {<<(<<"A">>), y>> : y \in S}

LookupArgs ==
    {PyList(l) : l \in StringLists} \cup {PyStr(x) : x \in NameStrings}

QueryArgs ==
    {PyStr(x) : x \in NameStrings \cup OtherStrings}
        \cup {PyInt(12), PyInt(0 - 1)}

CountArgs == {PyInt(n) : n \in (0 - MaxCount)..MaxCount} \cup {PyStr(<<"2">>)}

\* a fresh Names object
InitNames == ParserIdle /\ pc = "idle" /\ ScannerIdle /\ NamesNew

Called(op, arg, r) ==
    [op |-> op, arg |-> arg, result |-> r.result, exc |-> r.exc,
     names0 |-> names, count0 |-> error_code_count]

Lookup ==
    \E arg \in LookupArgs :
        LET r == lookup(names, arg) IN
        /\ names' = r.names
        /\ call' = Called("lookup", arg, r)
        /\ UNCHANGED <<error_code_count, issued>>
        /\ UNCHANGED <<parserVars, scannerVars>>

Query ==
    \E arg \in QueryArgs :
        LET r == query(names, arg) IN
        /\ names' = r.names
        /\ call' = Called("query", arg, r)
        /\ UNCHANGED <<error_code_count, issued>>
        /\ UNCHANGED <<parserVars, scannerVars>>

GetNameString ==
    \E name_id \in (0 - 1)..MaxNameId :
        LET r == get_name_string(names, name_id) IN
        /\ names' = r.names
        /\ call' = Called("get_name_string", name_id, r)
        /\ UNCHANGED <<error_code_count, issued>>
        /\ UNCHANGED <<parserVars, scannerVars>>

UniqueErrorCodes ==
    \E arg \in CountArgs :
        LET r == unique_error_codes(error_code_count, arg) IN
        /\ r.exc = "none" => Len(issued) < MaxIssued
        /\ error_code_count' = r.error_code_count
        /\ call' = Called("unique_error_codes", arg, r)
        /\ issued' = IF r.exc = "none"
                     THEN Append(issued, [n |-> arg.n, codes |-> r.result])
                     ELSE issued
        /\ UNCHANGED names
        /\ UNCHANGED <<parserVars, scannerVars>>

NextNames ==
    \/ Lookup
    \/ Query
    \/ GetNameString
    \/ UniqueErrorCodes

SpecNames == InitNames /\ [][NextNames]_vars

IdentifierList(v) ==
    v.t = "list" /\ \A i \in 1..Len(v.l) : IsIdentifier(v.l[i])

\* C14: lookup of a list of strings returns the list of their ids, same
\* length and order; a string not in the table gets the next free id, the
\* table growing by one entry for each new string.
C14_LookupInterns ==
    (call.op = "lookup" /\ IdentifierList(call.arg)) =>
        /\ call.exc = "none"
        /\ call.result.t = "list"
        /\ Len(call.result.l) = Len(call.arg.l)
        /\ names = Interned(call.names0, call.arg.l)
        /\ \A i \in 1..Len(call.arg.l) :
              call.result.l[i] = PyInt(index(names, call.arg.l[i]))

\* C15: lookup([s]) twice in a row returns the same id both times, and
\* get_name_string of that id returns s.
C15_RoundTrip ==
    (call.op = "lookup" /\ IdentifierList(call.arg) /\ Len(call.arg.l) = 1) =>
        LET s == call.arg.l[1]
            again == lookup(names, call.arg)
        IN /\ call.exc = "none"
           /\ again.exc = "none"
           /\ again.result = call.result
           /\ call.result.t = "list"
           /\ get_name_string(names, call.result.l[1].n)
                  = Returns(names, PyStr(s))

\* C16: whatever calls have been made, the strings of the table are
\* distinct, query(get_name_string(i)) = i for every assigned id i, and no
\* call changes the string bound to an assigned id.
TableConsistent ==
    /\ \A i, j \in 1..Len(names) : names[i] = names[j] => i = j
    /\ \A i \in 0..(Len(names) - 1) :
          LET g == get_name_string(names, i) IN
          /\ g.exc = "none"
          /\ g.result.t = "str"
          /\ query(names, g.result) = Returns(names, PyInt(i))

BindingsKept ==
    /\ Len(names') >= Len(names)
    /\ \A i \in 1..Len(names) : names'[i] = names[i]

C17_QueryIsPure ==
    call.op = "query" =>
        /\ names = call.names0
        /\ error_code_count = call.count0
        /\ (call.arg.t = "str" /\ IsIdentifier(call.arg.s)) =>
              /\ call.exc = "none"
              /\ call.result = IF In(names, call.arg.s)
                               THEN PyInt(index(names, call.arg.s))
                               ELSE PyNone

\* query has returned None for a name, after codes were handed out
C17_Witness ==
    /\ call.op = "query"
    /\ call.arg = PyStr(<<"a", "1">>)
    /\ call.exc = "none"
    /\ call.result = PyNone
    /\ call.count0 > 0

OutOfRange(id, nt) == id < 0 \/ id >= Len(nt)

RangeSet(r) == r.lo..(r.hi - 1)

\* C19: each unique_error_codes(n) returns n consecutive integers, and the
\* ranges returned by different calls have no integer in common.
C19_CodeRangesDisjoint ==
    /\ \A i \in 1..Len(issued) :
          issued[i].n >= 0 =>
              Cardinality(RangeSet(issued[i].codes)) = issued[i].n
    /\ \A i, j \in 1..Len(issued) :
          i # j => RangeSet(issued[i].codes) \cap RangeSet(issued[j].codes) = {}

\* C20: unique_error_codes with a negative count raises and leaves the
\* error-code counter as it was.
C20_NegativeCountRejected ==
    (call.op = "unique_error_codes" /\ call.arg.t = "int" /\ call.arg.n < 0) =>
        /\ call.exc # "none"
        /\ error_code_count = call.count0

\* ================================================= the scanner on its own
\* the characters the generated inputs are written in
ScanChars == {"a", "B", "1", " ", "\n", "#", "/", ";", "+"}

ScanTexts ==
    {\* // a // B
     <<"/", "/", " ", "a", " ", "/", "/", " ", "B">>,
     \* #a(newline)B1;
     <<"#", "a", "\n", "B", "1", ";">>,
     \* is an A1,12{}.
     <<"i", "s", " ", "a", "n", " ", "A", "1", ",", "1", "2", "{", "}", ".">>,
     \* A A B
     <<"A", " ", "A", " ", "B">>,
     \* (tab)B /
     <<"\t", "B", " ", "/">>}

ScanInputs ==
    UNION {[1..n -> ScanChars] : n \in 0..MaxScanLen} \cup ScanTexts

\* The Scanner is about to be constructed on a string, on a file, or on a
\* path that cannot be opened, with a name table that is either an instance
\* of Names (names.py) or one whose lookup does what the Scanner needs.
InitScanner ==
    /\ ParserIdle
    /\ pc = "new"
    /\ NamesNew
    /\ input_file \in ScanInputs
    /\ source \in {"string", "file", "missing", "denied"}
    /\ source \in {"missing", "denied"} => input_file = <<>>
    /\ names_class \in {"Names", "contract"}
    /\ current_character = " "
    /\ character_count = 0
    /\ current_line_number = 0
    /\ current_position = 0
    /\ returned = NoSymbol
    /\ scan = NoScan

scannerFixed ==
    /\ UNCHANGED <<tokens, badDev, badMon, badCon, section, stmt, symbol,
                   error_count, device_section, connection_section,
                   monitor_section, devices_list, monitors_dictionary, calls,
                   errlog, ret>>
    /\ UNCHANGED <<error_code_count, call, issued>>
    /\ UNCHANGED <<input_file, source, names_class>>

\* Scanner.__init__
Construct ==
    /\ pc = "new"
    /\ LET l == names_lookup(names_class, names, PyList(keywords_list))
           exc == IF source = "missing" THEN "FileNotFoundError"
                  ELSE IF source = "denied" THEN "PermissionError"
                  ELSE IF l.exc # "none" THEN l.exc
                  ELSE IF l.result.t # "list" THEN "TypeError"
                  ELSE "none"
       IN /\ fault' = exc
          /\ pc' = IF exc = "none" THEN "ready" ELSE "raised"
          /\ names' = IF exc = "none" THEN l.names ELSE names
    /\ UNCHANGED <<current_character, character_count, current_line_number,
                   current_position, returned, scan, word_number>>
    /\ scannerFixed

\* one call of Scanner.get_symbol
GetSymbol ==
    /\ pc = "ready"
    /\ word_number < Len(input_file) + ExtraCalls
    /\ LET r == Scanner_get_symbol(names_class, ScannerState) IN
       /\ current_character' = r.s.current_character
       /\ character_count' = r.s.character_count
       /\ current_line_number' = r.s.current_line_number
       /\ current_position' = r.s.current_position
       /\ names' = r.s.names
       /\ returned' = r.symbol
       /\ scan' = [begin |-> character_count,
                   first |-> skip_spaces(ScannerState).character_count,
                   end |-> r.s.character_count, outcome |-> r.outcome]
       /\ fault' = r.exc
       /\ pc' = IF r.outcome = "returned" THEN "ready" ELSE r.outcome
       /\ word_number' = IF r.outcome = "returned" THEN word_number + 1
                         ELSE word_number
    /\ scannerFixed

NextScanner ==
    \/ Construct
    \/ GetSymbol

SpecScanner == InitScanner /\ [][NextScanner]_vars

CharAt(p) == IF 1 <= p /\ p <= Len(input_file) THEN input_file[p] ELSE ""

\* a character that is not white space and starts no symbol
InvalidCharacterAt(p) ==
    /\ CharAt(p) # ""
    /\ ~isspace(CharAt(p))
    /\ ~isalnumeric(CharAt(p))
    /\ CharAt(p) \notin {",", "{", "}", ";", ".", "#", "/"}

\* '//' with no second '//' after it
UnterminatedBulkAt(p) ==
    /\ CharAt(p) = "/"
    /\ CharAt(p + 1) = "/"
    /\ ~\E q \in (p + 2)..Len(input_file) : CharAt(q) = "/" /\ CharAt(q + 1) = "/"

\* C13: a source that cannot be opened makes the constructor raise, and a
\* get_symbol that meets a character that starts no symbol, or a bulk
\* comment that is never closed, raises SyntaxError and returns no symbol.
C13_LexicalFailureRaises ==
    /\ (source \in {"missing", "denied"} /\ pc # "new") =>
          (pc = "raised" /\ fault # "none")
    /\ (scan.outcome # "none"
          /\ (InvalidCharacterAt(scan.first) \/ UnterminatedBulkAt(scan.first))) =>
          (scan.outcome = "raised" /\ fault = "SyntaxError" /\ returned = NoSymbol)

\* the last call was a query of a string, or a lookup of a list with a
\* string, that is not shaped like an identifier
NonIdentifierArg ==
    \/ call.op = "query" /\ ~IsIdentifier(str(call.arg))
    \/ /\ call.op = "lookup"
       /\ call.arg.t = "list"
       /\ \E i \in 1..Len(call.arg.l) : ~IsIdentifier(call.arg.l[i])

\* C21: query and lookup raise an error for every string that is not a
\* letter followed by letters and digits, and add nothing to the table.
C21_NonIdentifierRejected ==
    NonIdentifierArg => (call.exc # "none" /\ names = call.names0)

\* the last character of the run of letters and digits that starts at p
RECURSIVE RunEnd(_)
RunEnd(p) == IF isalnumeric(CharAt(p + 1)) THEN RunEnd(p + 1) ELSE p

WordAt(p) == SubSeq(input_file, p, RunEnd(p))

\* the table of a constructed Scanner: the keywords, then distinct words
\* that are neither keywords nor words of ignore
NameTableOfScanner ==
    pc = "ready" =>
        /\ SubSeq(names, 1, Len(keywords_list)) = keywords_list
        /\ \A i, j \in 1..Len(names) : names[i] = names[j] => i = j
        /\ \A i \in (Len(keywords_list) + 1)..Len(names) :
              names[i] \notin ignore /\ ~In(keywords_list, names[i])

\* a get_symbol that returns: a word of ignore gives a symbol of type None
\* and leaves the table alone; the table grows only for a NAME that it did
\* not hold, and then by that one word
FillerStep ==
    (pc = "ready" /\ pc' = "ready" /\ word_number' = word_number + 1) =>
        LET c == skip_spaces(ScannerState).current_character
            w == WordAt(scan'.first)
        IN /\ (isalpha(c) /\ w \in ignore) =>
                 (returned'.type = "None" /\ names' = names)
           /\ names' # names =>
                 /\ returned'.type = "NAME"
                 /\ ~In(names, w)
                 /\ names' = Append(names, w)
           /\ returned'.type = "NAME" => (isalpha(c) /\ In(names', w))

RECURSIVE NewlineFrom(_)
NewlineFrom(p) ==
    IF p > Len(input_file) \/ CharAt(p) = "\n" THEN p ELSE NewlineFrom(p + 1)

\* the first of two consecutive slashes at or after p, or 0
RECURSIVE SlashesFrom(_)
SlashesFrom(p) ==
    IF p >= Len(input_file) THEN 0
    ELSE IF CharAt(p) = "/" /\ CharAt(p + 1) = "/" THEN p
    ELSE SlashesFrom(p + 1)

\* the characters of the input, from p on, that belong to a comment: '#' up
\* to and including the newline, '//' up to and including the next '//'
RECURSIVE CommentChars(_)
CommentChars(p) ==
    IF p > Len(input_file) THEN {}
    ELSE IF CharAt(p) = "#"
    THEN (p..NewlineFrom(p)) \cup CommentChars(NewlineFrom(p) + 1)
    ELSE IF CharAt(p) = "/" /\ CharAt(p + 1) = "/"
    THEN IF SlashesFrom(p + 2) = 0 THEN p..Len(input_file)
         ELSE (p..(SlashesFrom(p + 2) + 1))
                 \cup CommentChars(SlashesFrom(p + 2) + 2)
    ELSE CommentChars(p + 1)

Scanned == pc = "ready" /\ scan.outcome = "returned" /\ word_number > 0

\* after a '#' comment the current character is the one after its newline
LineCommentSkipped ==
    (Scanned /\ returned.type = "LINECOMMENT") =>
        current_character = CharAt(NewlineFrom(scan.first) + 1)

\* after a '//' comment the current character is the one after its closing
\* pair of slashes
BulkCommentSkipped ==
    (/\ Scanned
     /\ returned.type = "BULKCOMMENT"
     /\ CharAt(scan.first + 1) = "/"
     /\ SlashesFrom(scan.first + 2) # 0) =>
        /\ character_count = SlashesFrom(scan.first + 2) + 2
        /\ current_character = CharAt(SlashesFrom(scan.first + 2) + 2)

\* no symbol other than the comment itself starts inside a comment
BodyNotScanned ==
    (Scanned /\ returned.type \notin {"LINECOMMENT", "BULKCOMMENT", "EOF"}) =>
        scan.first \notin CommentChars(1)

\* C23: after a line comment ('#' up to and including the newline) or a bulk
\* comment ('//' body '//') the current character is the first character
\* after the comment, and no character of the body becomes a symbol.
C23_CommentsSkipped ==
    LineCommentSkipped /\ BulkCommentSkipped /\ BodyNotScanned

\* the 0-based line of the character at p, and its 0-based column
LineOf(p) == Cardinality({i \in 1..(p - 1) : CharAt(i) = "\n"})

ColumnOf(p) ==
    LET before == {i \in 1..(p - 1) : CharAt(i) = "\n"}
        last == IF before = {} THEN 0
                ELSE CHOOSE i \in before : \A j \in before : j <= i
    IN p - 1 - last

\* C24: every symbol carries the 0-based line and the 0-based column of its
\* first character: line 0, column 0 for the first character of the input,
\* column 0 for a character right after a newline.
C24_SymbolPosition ==
    (Scanned /\ returned.type # "EOF") =>
        /\ returned.line_number = LineOf(scan.first)
        /\ returned.position = ColumnOf(scan.first)

\* from one step of the parser to the next no flag falls and the count of
\* errors does not fall
Monotone ==
    /\ device_section => device_section'
    /\ connection_section => connection_section'
    /\ monitor_section => monitor_section'
    /\ error_count' >= error_count

\* within a step: every reported error added one to the count, and the
\* count never fell between two reports or two calls of the builders
CountedInOrder ==
    /\ \A i \in 1..Len(errlog) :
          /\ errlog[i].cnt0 >= 0
          /\ errlog[i].cnt1 = errlog[i].cnt0 + 1
          /\ errlog[i].cnt1 <= error_count
    /\ \A i, j \in 1..Len(errlog) : i < j => errlog[i].cnt1 <= errlog[j].cnt0
    /\ \A i, j \in 1..Len(calls) :
          i < j => calls[i].error_count <= calls[j].error_count

\* C25: each of device_section, connection_section and monitor_section,
\* once true, stays true, and error_count never decreases.
C25_FlagsAndCountMonotone == []CountedInOrder /\ [][Monotone]_vars

\* two sections have been entered and several errors counted
C25_Witness ==
    /\ pc = "done"
    /\ device_section /\ connection_section
    /\ section # "DEVICE"
    /\ error_count >= 2

\* the linking verb of the device statement that the symbol at p belongs to
RECURSIVE VerbBefore(_)
VerbBefore(p) ==
    IF p < 1 THEN 0
    ELSE IF p <= Len(tokens) /\ tokens[p] \in {Is, Are} THEN p
    ELSE VerbBefore(p - 1)

\* the comma-separated list of names that ends with the symbol at p
RECURSIVE NamesEndingAt(_)
NamesEndingAt(p) ==
    IF p < 1 \/ tokens[p].type # "NAME" THEN <<>>
    ELSE IF p > 2 /\ tokens[p - 1] = COMMA
    THEN Append(NamesEndingAt(p - 2), tokens[p].id)
    ELSE <<tokens[p].id>>

\* the calls of make_device made for the statement whose verb is at q
DeviceCallsOf(q) ==
    LET OfStatement(c) == c.fn = "make_device" /\ VerbBefore(c.at) = q
    IN SelectSeq(calls, OfStatement)

Reported(code, st) ==
    \E k \in 1..Len(errlog) : errlog[k].code = code /\ errlog[k].stmt = st

\* C26: in a device statement with several names make_device is called once
\* per name, in list order, with the kind of the statement, and a call that
\* returns an error code is reported and does not stop the calls for the
\* remaining names.
C26_DevicePerName ==
    pc \in {"done", "raised"} =>
        \A i \in CallsTo("make_device") :
            LET q == VerbBefore(calls[i].at)
                made == DeviceCallsOf(q)
            IN /\ [j \in 1..Len(made) |-> made[j].args[1]]
                      = NamesEndingAt(q - 1)
               /\ \A j \in 1..Len(made) :
                     /\ made[j].args[2] = tokens[q + 1].id
                     /\ made[j].er # NO_ERROR =>
                            Reported(made[j].er, made[j].stmt)

\* the k-th symbol from the current one
Ahead(k) == SymbolAt(word_number + k)

Known(id) == get_device(World, id) # NoDevice

\* device connect device.port;
ShortForm ==
    /\ Ahead(0).type = "NAME" /\ Ahead(1) = Connect
    /\ Ahead(2).type = "NAME" /\ Ahead(3) = DOT
    /\ Ahead(4).type = "NAME" /\ Ahead(5) = SEMICOLON

\* device.port connect device.port;
LongForm ==
    /\ Ahead(0).type = "NAME" /\ Ahead(1) = DOT /\ Ahead(2).type = "NAME"
    /\ Ahead(3) = Connect
    /\ Ahead(4).type = "NAME" /\ Ahead(5) = DOT
    /\ Ahead(6).type = "NAME" /\ Ahead(7) = SEMICOLON

\* the call a correct connection statement at the current symbol asks for:
\* the port of the first device may be left out unless it is a D-type
ConnectionArgs ==
    IF ShortForm /\ Known(Ahead(0).id) /\ Known(Ahead(2).id)
           /\ get_device(World, Ahead(0).id).device_kind # D_TYPE
    THEN {<<Ahead(0).id, NoneId, Ahead(2).id, Ahead(4).id>>}
    ELSE IF LongForm /\ Known(Ahead(0).id) /\ Known(Ahead(4).id)
           /\ get_device(World, Ahead(0).id).device_kind = D_TYPE
           /\ Ahead(2).id \in dtype_output_ids
    THEN {<<Ahead(0).id, Ahead(2).id, Ahead(4).id, Ahead(6).id>>}
    ELSE {}

\* parse_connection is about to be called
AtConnectionStatement ==
    /\ pc = "section_loop"
    /\ section = "CONNECTION"
    /\ symbol.type # "CURLY_CLOSE"

\* the builder calls made by the step
NewCalls == SubSeq(calls', Len(calls) + 1, Len(calls'))

OneConnection ==
    /\ Len(NewCalls) = 1
    /\ NewCalls[1].fn = "make_connection"
    /\ NewCalls[1].args \in ConnectionArgs

\* a correct statement makes its one call whatever happened before
ConnectionAlwaysMade ==
    (AtConnectionStatement /\ ConnectionArgs # {}) => OneConnection

\* a correct statement makes its one call while no error has been counted,
\* and a statement of neither form makes none
ConnectionMade ==
    /\ (AtConnectionStatement /\ ConnectionArgs # {} /\ error_count = 0) =>
           OneConnection
    /\ (AtConnectionStatement /\ ~ShortForm /\ ~LongForm) => NewCalls = <<>>

\* C27: for every syntactically correct connection statement make_connection
\* is called exactly once, with the id and port of the first device (no port
\* when none is written) and the id and port of the second device; for a
\* statement with a syntax error it is not called at all.
C27_ConnectionAlwaysForwarded ==
    [][ConnectionAlwaysMade /\ ConnectionMade]_vars

\* C27, amended: as above for a statement reached with error_count = 0; a
\* correct statement reached after an error makes no call.
C27_ConnectionForwarded == [][ConnectionMade]_vars

\* a connection without a first port and one with a first port have both
\* been made
C27_Witness ==
    /\ \E i \in CallsTo("make_connection") : calls[i].args[2] = NoneId
    /\ \E i \in CallsTo("make_connection") : calls[i].args[2] # NoneId

\* the signals written from the k-th symbol ahead on, as a comma-separated
\* list closed by ';': the device of each, and the symbol after the ';'
RECURSIVE SignalsFrom(_, _)
SignalsFrom(k, devs) ==
    IF Ahead(k).type # "NAME" THEN [ok |-> FALSE, devs |-> devs, end |-> k]
    ELSE LET dotted == Ahead(k + 1) = DOT /\ Ahead(k + 2).type = "NAME"
             n == IF dotted THEN k + 3 ELSE k + 1
             l == Append(devs, Ahead(k).id)
         IN IF Ahead(n) = COMMA THEN SignalsFrom(n + 1, l)
            ELSE IF Ahead(n) = SEMICOLON
            THEN [ok |-> TRUE, devs |-> l, end |-> n + 1]
            ELSE [ok |-> FALSE, devs |-> l, end |-> n]

\* parse_monitor is about to be called on a signal list
AtMonitorStatement ==
    /\ pc = "section_loop"
    /\ section = "MONITOR"
    /\ symbol.type # "CURLY_CLOSE"

\* C28: in a monitor statement make_monitor is not called before the whole
\* comma-separated list of signals has been parsed; it is then called once
\* for each signal of the list, in list order.
C28_MonitorsAfterList ==
    [][(AtMonitorStatement /\ SignalsFrom(0, <<>>).ok /\ error_count = 0) =>
          LET list == SignalsFrom(0, <<>>) IN
          /\ Len(NewCalls) = Len(list.devs)
          /\ \A j \in 1..Len(NewCalls) :
                /\ NewCalls[j].fn = "make_monitor"
                /\ NewCalls[j].args[1] = list.devs[j]
                /\ NewCalls[j].at = word_number + list.end]_vars

\* the builder calls so far: which builder, with which arguments
CallSequence == [i \in 1..Len(calls) |-> <<calls[i].fn, calls[i].args>>]

\* C29: filler symbols are skipped wherever they occur and fill no grammar
\* slot: a filler word written between two symbols of an input changes
\* neither the result of parse_network, nor error_count, nor the sequence
\* of builder calls.
C29_FillersTransparent ==
    (/\ tokens \in {FillerBase} \cup FillerInputs
     /\ AllAccepting
     /\ pc \in {"done", "raised"}) =>
        /\ ret = "True"
        /\ error_count = 0
        /\ CallSequence = << <<"make_device", <<"A", "AND", 2>> >>,
                             <<"make_monitor", <<"A", NoneId>> >> >>

C31_CommentsYieldNoSymbol ==
    Scanned => returned.type \notin {"LINECOMMENT", "BULKCOMMENT"}

\* the last get_symbol started on the '//' that opens the first comment of
\* the input
AtFirstBulkComment ==
    /\ scan.outcome # "none"
    /\ CharAt(scan.first) = "/"
    /\ CharAt(scan.first + 1) = "/"
    /\ \A q \in 1..(scan.first - 1) : CharAt(q) \notin {"/", "#"}

\* C32: in a bulk comment the scanner skips every character between the
\* opening '//' and the closing '//'; when the end of the input comes before
\* a closing '//', get_symbol fails with a lexical error.
C32_BulkCommentBody ==
    AtFirstBulkComment =>
        IF SlashesFrom(scan.first + 2) = 0
        THEN scan.outcome = "raised" /\ fault = "SyntaxError"
        ELSE /\ scan.outcome = "returned"
             /\ character_count = SlashesFrom(scan.first + 2) + 2
             /\ current_character = CharAt(SlashesFrom(scan.first + 2) + 2)

\* the last digit of the run of digits that starts at p
RECURSIVE DigitRunEnd(_)
DigitRunEnd(p) == IF isnumeral(CharAt(p + 1)) THEN DigitRunEnd(p + 1) ELSE p

DigitRunAt(p) == SubSeq(input_file, p, DigitRunEnd(p))

\* the integer a string of digits denotes
RECURSIVE NumberValue(_)
NumberValue(digits) ==
    IF digits = <<>> THEN 0
    ELSE 10 * NumberValue(SubSeq(digits, 1, Len(digits) - 1))
            + (CHOOSE d \in 0..9 : DigitChar(d) = digits[Len(digits)])

\* the last get_symbol started on a digit
AtNumber ==
    Scanned /\ isnumeral(CharAt(scan.first)) /\ returned.type # "EOF"

ReportedInPlace(e) ==
    /\ ~e.skip
    /\ e.cnt1 = e.cnt0 + 1
    /\ e.at1 = e.at0
    /\ e.sym1 = e.sym0

\* every error code returned by a builder was reported in place, at the
\* symbol the call was made at
BuilderErrorsReported ==
    \A j \in 1..Len(calls) :
        calls[j].er # NO_ERROR =>
            \E i \in 1..Len(errlog) :
                /\ errlog[i].code = calls[j].er
                /\ errlog[i].at0 = calls[j].at
                /\ errlog[i].cnt0 = calls[j].error_count
                /\ ReportedInPlace(errlog[i])

\* C34: when a builder returns an error for a statement that was otherwise
\* well-formed the parser reports it without resynchronising: display_error
\* with skip=False adds one to error_count and leaves the current symbol
\* and the position of the scanner unchanged.
C34_SemanticErrorInPlace ==
    /\ \A i \in 1..Len(errlog) : ~errlog[i].skip => ReportedInPlace(errlog[i])
    /\ BuilderErrorsReported

\* one pass through the loop of parse_sections is about to run
AtStatement == pc = "section_loop" /\ symbol.type # "CURLY_CLOSE"

\* the pass read at least one symbol, or the loop is over
Progress == word_number' > word_number \/ pc' # "section_loop"

\* C35: every iteration of the statement loop of parse_sections consumes at
\* least one symbol or ends the section, so parse_network terminates on
\* every finite input, also on a section that holds stray punctuation, as
\* in 'Monitor{ ; }', or that ends at the end of the input.
C35_StatementLoopProgress == [][AtStatement => Progress]_vars

\* C36: get_symbol terminates on every finite input: each call returns a
\* symbol or raises after reading finitely many characters, also when a '#'
\* comment runs to the end of the input with no newline after it and when a
\* '/' is the last character.
C36_GetSymbolTerminates == pc # "hung" /\ scan.outcome # "hung"

\* the scanner has returned the EOF symbol
AtEnd == pc = "ready" /\ Scanned /\ returned.type = "EOF"

\* the next call returns EOF again and moves nothing
StaysAtEnd ==
    /\ pc' = "ready"
    /\ returned'.type = "EOF"
    /\ current_character' = current_character
    /\ current_line_number' = current_line_number
    /\ current_position' = current_position
    /\ character_count' = character_count
    /\ returned'.line_number = returned.line_number
    /\ returned'.position = returned.position

\* C37: the end of the input is absorbing for the scanner: once get_symbol
\* has returned an EOF symbol every later call returns an EOF symbol again
\* and leaves the line number, the column and the read index unchanged.
C37_EofAbsorbing == [][AtEnd => StaysAtEnd]_vars

\* EOF has been returned a second time
C37_Witness ==
    /\ AtEnd
    /\ input_file # <<>>
    /\ word_number = Len(input_file) + ExtraCalls

\* the errors reported by the step
NewErrors == SubSeq(errlog', Len(errlog) + 1, Len(errlog'))

\* no error is reported after one that ran the recovery
NothingAfterRecovery ==
    \A i, j \in 1..Len(NewErrors) : i < j => ~NewErrors[i].skip

\* C38: one malformed statement adds exactly one to error_count: after the
\* first display_error of a device or connection statement has run its
\* recovery, the statement parser reports no second error against the
\* symbols that follow the recovery point.
C38_OneErrorPerStatement ==
    [][(AtStatement /\ section \in {"DEVICE", "CONNECTION"}) =>
          NothingAfterRecovery]_vars

\* the arguments of a call of make_connection are resolved: two declared
\* devices, a first port that was assigned, and for a D-type first device
\* one of its outputs
Resolved(args) ==
    /\ Known(args[1])
    /\ Known(args[3])
    /\ args[2] # Unbound
    /\ get_device(World, args[1]).device_kind = D_TYPE =>
           args[2] \in dtype_output_ids

\* C39: make_connection is only ever called with fully resolved arguments:
\* both devices were found by get_device, the first port was assigned on
\* the path taken, and the port of a D-type first device is one of its
\* outputs.
C39_ConnectionArgsResolved ==
    /\ \A i \in CallsTo("make_connection") : Resolved(calls[i].args)
    /\ (pc = "raised" /\ section = "CONNECTION") =>
           fault \notin {"AttributeError", "UnboundLocalError"}

\* a connection statement whose first port was never assigned has been
\* parsed up to its ';' with one error counted, and no connection was made
C39_Witness ==
    /\ tokens = <<LINECOMMENT>> \o Unresolved(<<NAME("FF"), SEMICOLON>>)
    /\ section = "MONITOR"
    /\ error_count = 1
    /\ CallsTo("make_connection") = {}

====
